---- MODULE Spec2Model ----
(***************************************************************************)
(* Model of the C-callable entry points of CUE4Parse-Natives/ACL.h: the    *)
(* track converter (nConvertTrackList, nConvertACLTrack), the validity     *)
(* query (nCompressedTracks_IsValid) and the decompression-context         *)
(* wrappers (nDecompContextDefault_*, nCreateOutput*Writer).               *)
(*                                                                         *)
(* ACL.h only forwards to types that ACLDecompress.h declares.  The        *)
(* behaviour of those types (the decompression context, the two writers,   *)
(* the track array and the cast helpers) follows the written               *)
(* specification of the library contract; the entry points themselves are  *)
(* translated from ACL.h line by line.                                     *)
(***************************************************************************)
EXTENDS Integers, Sequences, FiniteSets

VARIABLES
    lastCall,       \* name of the entry point that returned last
    argTrackIndex,  \* trackIndex argument of the last call that took one
    \* ---- converter side -------------------------------------------------
    outTracks,      \* acl::track_array_qvvf filled by nConvertTrackList
    ret,            \* text (const char*) the last text-returning call returned
    argPos,         \* outPosKeys as the caller passed it
    argRot,         \* outRotKeys as the caller passed it
    argScale,       \* outScaleKeys as the caller passed it
    callerPos,      \* caller's FVector* for positions, as it is after the call
    callerRot,      \* caller's FQuat*   for rotations, as it is after the call
    callerScale,    \* caller's FVector* for scales,    as it is after the call
    outPos,         \* value of the callee's local outPosKeys at function exit
    outRot,         \* value of the callee's local outRotKeys at function exit
    outScale,       \* value of the callee's local outScaleKeys at function exit
    mem,            \* memory: address -> sequence of cells
    allocated,      \* addresses malloc returned during the last call
    written,        \* the stores of the last call, as <<address, index>>
    \* ---- decompression side ---------------------------------------------
    ctx,            \* DecompContextDefault
    writer,         \* FUE4OutputWriter: the track -> slot mapping it wraps
    atoms,          \* caller-owned FTransform array the batch writer wraps
    atom,           \* caller-owned FTransform the single-track writer wraps
    err,            \* failure the last context call surfaced to its caller
    seekArgs,       \* history: <<sampleTime, roundingPolicy>> of the last seek
    phase,          \* history: progress through seek; decode; seek; decode
    decodeA,        \* history: atoms of the decode after the first seek
    batchFresh,     \* history: atoms hold a batch decode at the current time
    singleFresh     \* history: atom holds a single decode at the current time

callVars == <<lastCall, argTrackIndex>>
convVars == <<outTracks, ret, argPos, argRot, argScale,
              callerPos, callerRot, callerScale,
              outPos, outRot, outScale, mem, allocated, written>>
decompVars == <<ctx, writer, atoms, atom, err, seekArgs, phase, decodeA,
                batchFresh, singleFresh>>
vars == <<callVars, convVars, decompVars>>

(***************************************************************************)
(* Bounds of the model.                                                    *)
(***************************************************************************)
MaxTracks == 2
MaxSamples == 4
MaxClipSamples == 2

(***************************************************************************)
(* Values.                                                                 *)
(***************************************************************************)
NULL == 0
PosBuf == 1
RotBuf == 2
ScaleBuf == 3
FirstHeapAddr == 4
Addrs == 1..6

Uninit == << >>

OkText == ""
EmptyClipText == "Clip has no samples"
InvalidText == "Invalid compressed tracks"
HashText == "Invalid hash"
Indeterminate == "<indeterminate>"

\* The external decoding oracle, as a deterministic fixture: the raw
\* (rtm) transform of sample s of track t, both 0-based.
Oracle(t, s) ==
    [rotation    |-> [dir |-> 10 * t + s, len |-> 1 + ((t + s) % 2)],
     translation |-> <<t, s, 1, 7>>,
     scale       |-> <<t, s, 2, 7>>]

\* rtm::quat_normalize: same direction, unit length.
quat_normalize(q) == [dir |-> q.dir, len |-> 1]
\* QuatCast: rtm::quatf -> FQuat {X,Y,Z,W}.
QuatCast(q) == <<q.dir, q.len>>
\* VectorCast: rtm::vector4f -> FVector {X,Y,Z}; the fourth lane is dropped.
VectorCast(v) == <<v[1], v[2], v[3]>>

\* acl::compressed_tracks values handed in by the caller.
CompressedSets ==
    [valid : BOOLEAN, hashOk : BOOLEAN,
     numTracks : 0..MaxTracks, numSamples : 0..MaxSamples]

\* Those whose embedded hash matches their content.
HashedSets == {c \in CompressedSets : c.hashOk}
\* Those of the largest shape.
FullSets ==
    {c \in CompressedSets : c.numTracks = MaxTracks /\ c.numSamples = MaxSamples}

\* compressed_tracks::is_valid(checkHash) followed by error_result::c_str().
is_valid(tracks, checkHash) ==
    IF ~tracks.valid THEN InvalidText
    ELSE IF checkHash /\ ~tracks.hashOk THEN HashText
    ELSE OkText

\* track_array accessors.
get_num_tracks(tracks) == Len(tracks)
get_num_samples_per_track(tracks) ==
    IF Len(tracks) = 0 THEN 0 ELSE Len(tracks[1])

\* acl::convert_track_list: every track, every sample, in (track, sample)
\* order; an error leaves the output array as it was.
convert_track_list(tracks, old) ==
    IF is_valid(tracks, FALSE) # OkText
    THEN [text |-> is_valid(tracks, FALSE), outTracks |-> old]
    ELSE [text |-> OkText,
          outTracks |-> [t \in 1..tracks.numTracks |->
                           [s \in 1..tracks.numSamples |-> Oracle(t - 1, s - 1)]]]

(***************************************************************************)
(* nConvertACLTrack, ACL.h:23-57.                                          *)
(* The running state of a call is a record                                 *)
(*   [mem, allocated, written].                                            *)
(***************************************************************************)
\* Memory as the caller sets it up before a call: three caller buffers of
\* MaxSamples cells, nothing on the heap.
CallerMem ==
    [a \in Addrs |-> IF a < FirstHeapAddr
                     THEN [i \in 1..MaxSamples |-> Uninit]
                     ELSE << >>]

\* malloc(n * sizeof(T)): the next free heap address, with n cells.
mallocAddr(st) == FirstHeapAddr + Cardinality(st.allocated)
malloc(st, n) ==
    [st EXCEPT !.mem[mallocAddr(st)] = [i \in 1..n |-> Uninit],
               !.allocated = @ \cup {mallocAddr(st)}]

\* p[index] = value
Store(st, p, index, value) ==
    [st EXCEPT !.mem[p] = IF index + 1 \in DOMAIN @
                          THEN [@ EXCEPT ![index + 1] = value] ELSE @,
               !.written = @ \cup {<<p, index>>}]

\* ACL.h:41-42
WriteRotation(st, track, sampleIndex, outRotKeys) ==
    Store(st, outRotKeys, sampleIndex,
          QuatCast(quat_normalize(track[sampleIndex + 1].rotation)))
\* ACL.h:47-48
WriteTranslation(st, track, sampleIndex, outPosKeys) ==
    Store(st, outPosKeys, sampleIndex,
          VectorCast(track[sampleIndex + 1].translation))
\* ACL.h:53-54, with the store going to the wrong element
WriteScale_misaligned(st, track, sampleIndex, outScaleKeys) ==
    Store(st, outScaleKeys, 0, VectorCast(track[sampleIndex + 1].scale))
\* ACL.h:53-54
WriteScale(st, track, sampleIndex, outScaleKeys) ==
    Store(st, outScaleKeys, sampleIndex,
          VectorCast(track[sampleIndex + 1].scale))

\* ACL.h:39-43
RECURSIVE RotationLoop(_, _, _, _, _)
RotationLoop(st, track, numSamples, sampleIndex, outRotKeys) ==
    IF sampleIndex < numSamples
    THEN RotationLoop(WriteRotation(st, track, sampleIndex, outRotKeys),
                      track, numSamples, sampleIndex + 1, outRotKeys)
    ELSE st
\* ACL.h:45-49
RECURSIVE TranslationLoop(_, _, _, _, _)
TranslationLoop(st, track, numSamples, sampleIndex, outPosKeys) ==
    IF sampleIndex < numSamples
    THEN TranslationLoop(WriteTranslation(st, track, sampleIndex, outPosKeys),
                         track, numSamples, sampleIndex + 1, outPosKeys)
    ELSE st
\* ACL.h:51-55
RECURSIVE ScaleLoop(_, _, _, _, _)
ScaleLoop(st, track, numSamples, sampleIndex, outScaleKeys) ==
    IF sampleIndex < numSamples
    THEN ScaleLoop(WriteScale(st, track, sampleIndex, outScaleKeys),
                   track, numSamples, sampleIndex + 1, outScaleKeys)
    ELSE st

\* ACL.h:35-56.  The loop variable is a new trackIndex that hides the
\* parameter of the same name: the loop visits every track of the array.
RECURSIVE TrackLoop(_, _, _, _, _, _, _, _)
TrackLoop(st, tracks, numTracks, numSamples, trackIndex, p, r, s) ==
    IF trackIndex < numTracks
    THEN LET track == tracks[trackIndex + 1]
             s1 == RotationLoop(st, track, numSamples, 0, r)
             s2 == TranslationLoop(s1, track, numSamples, 0, p)
             s3 == ScaleLoop(s2, track, numSamples, 0, s)
         IN  TrackLoop(s3, tracks, numTracks, numSamples, trackIndex + 1, p, r, s)
    ELSE st

\* What a call of nConvertACLTrack leaves behind: the texts the build may
\* return, the memory, and the callee's three local pointers.
Outcome(texts, st, p, r, s) ==
    [texts |-> texts, mem |-> st.mem, allocated |-> st.allocated,
     written |-> st.written, pos |-> p, rot |-> r, scale |-> s]

\* ACL.h:31-57.  The three mallocs assign the callee's own copies of the
\* pointer arguments.  Control reaches the closing brace of a function
\* returning const char* without a return statement: the value the caller
\* reads is indeterminate (it may or may not be null).
ConvertBody(tracks, numSamples, outPosKeys, outRotKeys, outScaleKeys, mem0) ==
    LET s0 == [mem |-> mem0, allocated |-> {}, written |-> {}]
        p  == IF outPosKeys = NULL THEN mallocAddr(s0) ELSE outPosKeys
        s1 == IF outPosKeys = NULL THEN malloc(s0, numSamples) ELSE s0
        r  == IF outRotKeys = NULL THEN mallocAddr(s1) ELSE outRotKeys
        s2 == IF outRotKeys = NULL THEN malloc(s1, numSamples) ELSE s1
        s  == IF outScaleKeys = NULL THEN mallocAddr(s2) ELSE outScaleKeys
        s3 == IF outScaleKeys = NULL THEN malloc(s2, numSamples) ELSE s2
        numTracks == get_num_tracks(tracks)
        s4 == TrackLoop(s3, tracks, numTracks, numSamples, 0, p, r, s)
    IN  Outcome({OkText, Indeterminate}, s4, p, r, s)

\* ACL.h:23-57 without the test of ACL.h:26
nConvertACLTrack_noEmptyCheck(tracks, trackIndex, outPosKeys, outRotKeys, outScaleKeys, mem0) ==
    ConvertBody(tracks, get_num_samples_per_track(tracks),
                outPosKeys, outRotKeys, outScaleKeys, mem0)

\* ACL.h:23-57
nConvertACLTrack(tracks, trackIndex, outPosKeys, outRotKeys, outScaleKeys, mem0) ==
    LET numSamples == get_num_samples_per_track(tracks)
    IN  IF numSamples = 0
        THEN Outcome({EmptyClipText},
                     [mem |-> mem0, allocated |-> {}, written |-> {}],
                     outPosKeys, outRotKeys, outScaleKeys)
        ELSE ConvertBody(tracks, numSamples,
                         outPosKeys, outRotKeys, outScaleKeys, mem0)

\* ACL.h:22
nConvertTrackList(tracks, old) == convert_track_list(tracks, old)

\* ACL.h:9
nCompressedTracks_IsValid(tracks, checkHash) == is_valid(tracks, checkHash)

(***************************************************************************)
(* Converter: the calls a host makes.                                      *)
(***************************************************************************)
IsValid ==
    \E tracks \in FullSets, checkHash \in BOOLEAN :
        /\ ret' = nCompressedTracks_IsValid(tracks, checkHash)
        /\ lastCall' = "nCompressedTracks_IsValid"
        /\ UNCHANGED <<argTrackIndex, outTracks, argPos, argRot, argScale,
                       callerPos, callerRot, callerScale, outPos, outRot, outScale, mem, allocated, written>>
        /\ UNCHANGED decompVars

\* The host converts a clip before it extracts from it, and has released
\* the buffers of an earlier extraction by then.
ConvertTrackList ==
    \E tracks \in HashedSets :
        LET res == nConvertTrackList(tracks, outTracks)
        IN  /\ outTracks' = res.outTracks
            /\ ret' = res.text
            /\ lastCall' = "nConvertTrackList"
            /\ argTrackIndex' = 0
            /\ argPos' = NULL
            /\ argRot' = NULL
            /\ argScale' = NULL
            /\ callerPos' = NULL
            /\ callerRot' = NULL
            /\ callerScale' = NULL
            /\ outPos' = NULL
            /\ outRot' = NULL
            /\ outScale' = NULL
            /\ mem' = CallerMem
            /\ allocated' = {}
            /\ written' = {}
            /\ UNCHANGED decompVars

\* The caller passes its three pointers by value: whatever the callee
\* assigns to its parameters, the caller's pointers are what they were.
ConvertACLTrack ==
    \E trackIndex \in 0..MaxTracks,
       p \in {NULL, PosBuf}, r \in {NULL, RotBuf}, s \in {NULL, ScaleBuf} :
        LET res == nConvertACLTrack(outTracks, trackIndex, p, r, s, CallerMem)
        IN  \E text \in res.texts :
                /\ ret' = text
                /\ lastCall' = "nConvertACLTrack"
                /\ argTrackIndex' = trackIndex
                /\ argPos' = p
                /\ argRot' = r
                /\ argScale' = s
                /\ callerPos' = p
                /\ callerRot' = r
                /\ callerScale' = s
                /\ outPos' = res.pos
                /\ outRot' = res.rot
                /\ outScale' = res.scale
                /\ mem' = res.mem
                /\ allocated' = res.allocated
                /\ written' = res.written
                /\ UNCHANGED outTracks
                /\ UNCHANGED decompVars

(***************************************************************************)
(* Decompression context and writers.                                      *)
(***************************************************************************)
NoSlot == -1
NoError == ""
UsageError == "usage error"
OutOfRange == "track index out of range"

Policies == {"Nearest", "Floor", "Ceil"}
DefaultPolicy == "Nearest"
\* Sample times are counted in thirds of a sample interval, so that the
\* three rounding policies differ; the range reaches past both clip ends.
Times == (0 - 1)..(3 * MaxClipSamples - 2)

\* The clips a context is bound to: decoding is defined for clips that
\* hold at least one sample per track.
ClipSets ==
    {c \in HashedSets : c.valid /\ c.numSamples \in 1..MaxClipSamples}
NoTracks == [valid |-> FALSE, hashOk |-> FALSE, numTracks |-> 0, numSamples |-> 0]

Slots == 0..(MaxTracks - 1)
\* FAtomIndices: for each track the slot of the atoms array, or NoSlot;
\* no two tracks share a slot.
TrackToAtomsMaps ==
    {m \in [0..(MaxTracks - 1) -> Slots \cup {NoSlot}] :
        \A i, j \in DOMAIN m : (i # j /\ m[i] # NoSlot) => m[i] # m[j]}
FreshAtoms == [i \in 1..MaxTracks |-> Uninit]

\* The sample a time maps to: out-of-range times are clamped to the clip,
\* fractional times are rounded by the policy.
SampleAt(tracks, time, policy) ==
    LET last == 3 * (tracks.numSamples - 1)
        clamped == IF time < 0 THEN 0 ELSE IF time > last THEN last ELSE time
    IN  CASE policy = "Floor"   -> clamped \div 3
          [] policy = "Ceil"    -> (clamped + 2) \div 3
          [] policy = "Nearest" -> (clamped + 1) \div 3

\* The FTransform of one track at the context's time.
Decode(tracks, trackIndex, time, policy) ==
    LET raw == Oracle(trackIndex, SampleAt(tracks, time, policy))
    IN  <<QuatCast(raw.rotation), VectorCast(raw.translation), VectorCast(raw.scale)>>

\* new DecompContextDefault()
NewContext ==
    [initialized |-> FALSE, tracks |-> NoTracks, time |-> 0, policy |-> DefaultPolicy]

\* decompression_context::initialize
initialize(context, tracks) ==
    IF is_valid(tracks, FALSE) # OkText
    THEN [ok |-> FALSE, ctx |-> context]
    ELSE [ok |-> TRUE,
          ctx |-> [initialized |-> TRUE, tracks |-> tracks,
                   time |-> 0, policy |-> DefaultPolicy]]

\* decompression_context::seek
seek(context, sampleTime, roundingPolicy) ==
    IF ~context.initialized
    THEN [ctx |-> context, err |-> UsageError]
    ELSE [ctx |-> [context EXCEPT !.time = sampleTime, !.policy = roundingPolicy],
          err |-> NoError]

\* FUE4OutputWriter::write for track after track, in ascending order; an
\* unmapped track ends the decode with an error.
RECURSIVE WriteTracks(_, _, _, _)
WriteTracks(context, map, out, trackIndex) ==
    IF trackIndex >= context.tracks.numTracks
    THEN [atoms |-> out, err |-> NoError]
    ELSE IF map[trackIndex] = NoSlot
    THEN [atoms |-> out, err |-> UsageError]
    ELSE WriteTracks(context, map,
                     [out EXCEPT ![map[trackIndex] + 1] =
                         Decode(context.tracks, trackIndex, context.time, context.policy)],
                     trackIndex + 1)

\* decompression_context::decompress_tracks
decompress_tracks(context, map, out) ==
    IF ~context.initialized
    THEN [atoms |-> out, err |-> UsageError]
    ELSE WriteTracks(context, map, out, 0)

\* decompression_context::decompress_track
decompress_track(context, trackIndex, out) ==
    IF ~context.initialized
    THEN [atom |-> out, err |-> UsageError]
    ELSE IF trackIndex >= context.tracks.numTracks
    THEN [atom |-> out, err |-> OutOfRange]
    ELSE [atom |-> Decode(context.tracks, trackIndex, context.time, context.policy),
          err |-> NoError]

\* ACL.h:12
nDecompContextDefault_Create == NewContext
\* ACL.h:14
nDecompContextDefault_Initialize(context, tracks) == initialize(context, tracks)

\* ACL.h:15 with the failure of the forwarded call swallowed
nDecompContextDefault_Seek_silent(context, sampleTime, roundingPolicy) ==
    [seek(context, sampleTime, roundingPolicy) EXCEPT !.err = NoError]
\* ACL.h:15 with the time taken relative to the current time
nDecompContextDefault_Seek_relative(context, sampleTime, roundingPolicy) ==
    seek(context, context.time + sampleTime, roundingPolicy)
\* ACL.h:15
nDecompContextDefault_Seek(context, sampleTime, roundingPolicy) ==
    seek(context, sampleTime, roundingPolicy)

\* ACL.h:16
nCreateOutputWriter(out, trackToAtomsMap) == [atoms |-> out, map |-> trackToAtomsMap]
\* ACL.h:17
nCreateOutputTrackWriter(out) == out

\* ACL.h:18 with the failure of the forwarded call swallowed
nDecompContextDefault_DecompressTracks_silent(context, map, out) ==
    [decompress_tracks(context, map, out) EXCEPT !.err = NoError]
\* ACL.h:18
nDecompContextDefault_DecompressTracks(context, map, out) ==
    decompress_tracks(context, map, out)

\* ACL.h:19 with the track index not forwarded
nDecompContextDefault_DecompressTrack_first(context, trackIndex, out) ==
    decompress_track(context, 0, out)
\* ACL.h:19 with the track index wrapped into range
nDecompContextDefault_DecompressTrack_wrapped(context, trackIndex, out) ==
    decompress_track(context,
                     IF context.initialized /\ context.tracks.numTracks > 0
                     THEN trackIndex % context.tracks.numTracks ELSE trackIndex,
                     out)
\* ACL.h:19
nDecompContextDefault_DecompressTrack(context, trackIndex, out) ==
    decompress_track(context, trackIndex, out)

(***************************************************************************)
(* Decompression: the calls a host makes.                                  *)
(***************************************************************************)
Create ==
    /\ ctx' = nDecompContextDefault_Create
    /\ err' = NoError
    /\ lastCall' = "nDecompContextDefault_Create"
    /\ seekArgs' = << >>
    /\ phase' = "idle"
    /\ decodeA' = << >>
    /\ batchFresh' = FALSE
    /\ singleFresh' = FALSE
    /\ argTrackIndex' = 0
    /\ UNCHANGED <<writer, atoms, atom>>
    /\ UNCHANGED convVars

Initialize ==
    \E tracks \in ClipSets \cup {NoTracks} :
        LET res == nDecompContextDefault_Initialize(ctx, tracks)
        IN  /\ ctx' = res.ctx
            /\ err' = NoError
            /\ lastCall' = "nDecompContextDefault_Initialize"
            /\ IF res.ok
               THEN /\ seekArgs' = << >>
                    /\ phase' = "idle"
                    /\ decodeA' = << >>
                    /\ batchFresh' = FALSE
                    /\ singleFresh' = FALSE
                    /\ argTrackIndex' = 0
               ELSE UNCHANGED <<seekArgs, phase, decodeA, batchFresh, singleFresh,
                                argTrackIndex>>
            /\ UNCHANGED <<writer, atoms, atom>>
            /\ UNCHANGED convVars

Seek ==
    \E sampleTime \in Times, roundingPolicy \in Policies :
        LET res == nDecompContextDefault_Seek(ctx, sampleTime, roundingPolicy)
            again == /\ seekArgs = <<sampleTime, roundingPolicy>>
                     /\ phase \in {"decodedA", "reseeked", "decodedB"}
        IN  /\ ctx' = res.ctx
            /\ err' = res.err
            /\ lastCall' = "nDecompContextDefault_Seek"
            /\ IF res.err = NoError
               THEN /\ seekArgs' = <<sampleTime, roundingPolicy>>
                    /\ phase' = IF again THEN "reseeked" ELSE "seeked"
                    /\ decodeA' = IF again THEN decodeA ELSE << >>
                    /\ batchFresh' = FALSE
                    /\ singleFresh' = FALSE
                    /\ argTrackIndex' = 0
               ELSE UNCHANGED <<seekArgs, phase, decodeA, batchFresh, singleFresh,
                                argTrackIndex>>
            /\ UNCHANGED <<writer, atoms, atom>>
            /\ UNCHANGED convVars

\* The caller hands a new writer a cleared array of atoms.
CreateOutputWriter ==
    \E trackToAtomsMap \in TrackToAtomsMaps :
        LET w == nCreateOutputWriter(FreshAtoms, trackToAtomsMap)
        IN  /\ writer' = w.map
            /\ atoms' = w.atoms
            /\ lastCall' = "nCreateOutputWriter"
            /\ phase' = IF phase = "idle" THEN "idle" ELSE "seeked"
            /\ decodeA' = << >>
            /\ batchFresh' = FALSE
            /\ err' = NoError
            /\ UNCHANGED <<argTrackIndex, ctx, atom, seekArgs, singleFresh>>
            /\ UNCHANGED convVars

\* The caller hands a new single-track writer a cleared atom.
CreateOutputTrackWriter ==
    /\ atom' = nCreateOutputTrackWriter(Uninit)
    /\ lastCall' = "nCreateOutputTrackWriter"
    /\ singleFresh' = FALSE
    /\ argTrackIndex' = 0
    /\ err' = NoError
    /\ UNCHANGED <<ctx, writer, atoms, seekArgs, phase,
                   decodeA, batchFresh>>
    /\ UNCHANGED convVars

DecompressTracks ==
    LET res == nDecompContextDefault_DecompressTracks(ctx, writer, atoms)
        done == res.err = NoError
    IN  /\ atoms' = res.atoms
        /\ err' = res.err
        /\ lastCall' = "nDecompContextDefault_DecompressTracks"
        /\ batchFresh' = done
        /\ phase' = IF done /\ phase = "seeked" THEN "decodedA"
                    ELSE IF done /\ phase = "reseeked" THEN "decodedB"
                    ELSE phase
        /\ decodeA' = IF done /\ phase = "seeked" THEN res.atoms ELSE decodeA
        /\ UNCHANGED <<argTrackIndex, ctx, writer, atom, seekArgs, singleFresh>>
        /\ UNCHANGED convVars

DecompressTrack ==
    \E trackIndex \in 0..MaxTracks :
        LET res == nDecompContextDefault_DecompressTrack(ctx, trackIndex, atom)
        IN  /\ atom' = res.atom
            /\ err' = res.err
            /\ lastCall' = "nDecompContextDefault_DecompressTrack"
            /\ argTrackIndex' = trackIndex
            /\ singleFresh' = (res.err = NoError)
            /\ UNCHANGED <<ctx, writer, atoms, seekArgs, phase, decodeA, batchFresh>>
            /\ UNCHANGED convVars

(***************************************************************************)
(* Specifications.                                                         *)
(***************************************************************************)
Init ==
    /\ lastCall = "none"
    /\ argTrackIndex = 0
    /\ outTracks = << >>
    /\ ret = OkText
    /\ argPos = NULL
    /\ argRot = NULL
    /\ argScale = NULL
    /\ callerPos = NULL
    /\ callerRot = NULL
    /\ callerScale = NULL
    /\ outPos = NULL
    /\ outRot = NULL
    /\ outScale = NULL
    /\ mem = CallerMem
    /\ allocated = {}
    /\ written = {}
    /\ ctx = nDecompContextDefault_Create
    /\ writer = [i \in 0..(MaxTracks - 1) |-> NoSlot]
    /\ atoms = FreshAtoms
    /\ atom = Uninit
    /\ err = NoError
    /\ seekArgs = << >>
    /\ phase = "idle"
    /\ decodeA = << >>
    /\ batchFresh = FALSE
    /\ singleFresh = FALSE

\* The converter and the validity query.
Next ==
    \/ IsValid
    \/ ConvertTrackList
    \/ ConvertACLTrack

Spec == Init /\ [][Next]_vars

\* The decompression context and its writers.
NextDecomp ==
    \/ Create
    \/ Initialize
    \/ Seek
    \/ CreateOutputWriter
    \/ CreateOutputTrackWriter
    \/ DecompressTracks
    \/ DecompressTrack

SpecDecomp == Init /\ [][NextDecomp]_vars

(***************************************************************************)
(* Properties of the converter (under Spec).                               *)
(***************************************************************************)
NumSamples == get_num_samples_per_track(outTracks)
NumTracks == get_num_tracks(outTracks)
Extracted == lastCall = "nConvertACLTrack"

\* The three values nConvertACLTrack is to store for sample s of track t.
TranslationOf(t, s) == VectorCast(outTracks[t + 1][s + 1].translation)
RotationOf(t, s) == QuatCast(quat_normalize(outTracks[t + 1][s + 1].rotation))
ScaleOf(t, s) == VectorCast(outTracks[t + 1][s + 1].scale)

\* Array p holds a value in each of its first NumSamples elements.
Filled(p) ==
    /\ Len(mem[p]) >= NumSamples
    /\ \A i \in 1..NumSamples : mem[p][i] # Uninit

\* C1: after nConvertTrackList and nConvertACLTrack for a trackIndex in
\* [0, numTracks) on a clip with samples, the three arrays the function
\* filled hold, at every sample index s, the translation, rotation and scale
\* of sample s of track trackIndex.
C1_RequestedTrack ==
    (Extracted /\ NumSamples > 0 /\ argTrackIndex < NumTracks) =>
        \A s \in 0..(NumSamples - 1) :
            /\ mem[outPos][s + 1] = TranslationOf(argTrackIndex, s)
            /\ mem[outRot][s + 1] = RotationOf(argTrackIndex, s)
            /\ mem[outScale][s + 1] = ScaleOf(argTrackIndex, s)

\* C2: on a track array without samples nConvertACLTrack returns the
\* "Clip has no samples" text, whatever the trackIndex and whichever buffers
\* are passed, allocates nothing and stores nothing.
C2_EmptyClip ==
    (Extracted /\ NumSamples = 0) =>
        /\ ret = EmptyClipText
        /\ ret # OkText
        /\ allocated = {}
        /\ written = {}
        /\ mem = CallerMem

C2_Witness ==
    /\ Extracted
    /\ NumSamples = 0
    /\ NumTracks = MaxTracks
    /\ argTrackIndex = 1
    /\ argPos = NULL
    /\ argRot = RotBuf
    /\ argScale = NULL

\* C7: with samples, for each of the three arrays: an absent buffer is
\* replaced by a new array of numSamples filled elements that the caller
\* holds after the call; a present buffer is filled in place and nothing is
\* allocated for it.
HandedBack(arg, caller, out) ==
    IF arg = NULL
    THEN /\ caller \in allocated
         /\ Len(mem[caller]) = NumSamples
         /\ Filled(caller)
    ELSE /\ caller = arg
         /\ out = arg
         /\ out \notin allocated
         /\ Filled(arg)

C7_BufferOwnership ==
    (Extracted /\ NumSamples > 0) =>
        /\ HandedBack(argPos, callerPos, outPos)
        /\ HandedBack(argRot, callerRot, outRot)
        /\ HandedBack(argScale, callerScale, outScale)

\* C8: every text-returning entry point returns a defined text on every
\* path, empty on success and a diagnosis on failure; nConvertACLTrack
\* returns the empty text once it has stored all samples of a clip that
\* has samples.
C8_ReportingShape ==
    /\ lastCall \in {"nCompressedTracks_IsValid", "nConvertTrackList"} =>
           ret \in {OkText, InvalidText, HashText}
    /\ (Extracted /\ NumSamples = 0) => ret = EmptyClipText
    /\ (Extracted /\ NumSamples > 0) => ret = OkText

\* C10: with samples, element i of the rotation, translation and scale
\* arrays comes from sample i of one and the same track, for every i below
\* numSamples; and each array is stored to at the indices 0..numSamples-1,
\* each of them, and at no other.
C10_Aligned ==
    (Extracted /\ NumSamples > 0) =>
        /\ \A i \in 0..(NumSamples - 1) :
               \E t \in 0..(NumTracks - 1) :
                   /\ mem[outRot][i + 1] = RotationOf(t, i)
                   /\ mem[outPos][i + 1] = TranslationOf(t, i)
                   /\ mem[outScale][i + 1] = ScaleOf(t, i)
        /\ written = {outPos, outRot, outScale} \X (0..(NumSamples - 1))

C10_Witness ==
    /\ Extracted
    /\ NumTracks = MaxTracks
    /\ NumSamples = MaxSamples
    /\ argPos = NULL
    /\ argRot = RotBuf
    /\ argScale = ScaleBuf
    /\ \A i \in 0..(NumSamples - 1) : mem[outScale][i + 1] = ScaleOf(NumTracks - 1, i)

(***************************************************************************)
(* Properties of the decompression context (under SpecDecomp).             *)
(***************************************************************************)
BoundTracks == ctx.tracks.numTracks
Decoders ==
    {"nDecompContextDefault_Seek",
     "nDecompContextDefault_DecompressTracks",
     "nDecompContextDefault_DecompressTrack"}

OmitsTrack == \E i \in 0..(BoundTracks - 1) : writer[i] = NoSlot

====
